---- MODULE Spec2Model ----
(***************************************************************************)
(* The high-level COALA IP functions of coalaip.py (class CoalaIp):        *)
(* register_manifestation, derive_right and transfer_right, bound to a     *)
(* persistence plugin.  Every call into the plugin (Entity.create) is a    *)
(* suspension point: the code between two plugin calls is one step.        *)
(***************************************************************************)
EXTENDS Integers, Sequences, FiniteSets, TLC

\* Number of high-level operations the caller starts.
MaxOps == 2

VARIABLES
    dicts,      \* the caller's mutable mappings (manifestation_data, right_data)
    heap,       \* the entity objects (Work, Manifestation, Copyright, Right)
    backend,    \* what the plugin has persisted, in order of persistence
    ops         \* the operations started so far, each with its locals

vars == <<dicts, heap, backend, ops>>

-----------------------------------------------------------------------------
(* Python values: None, the empty string, and the dict operations used.    *)

None == "<None>"
Empty == ""

Users == {"u1", "u2"}

\* An identifier the caller got from elsewhere and put into the data itself.
ExternalId == "ext"

\* bool(v) as `not x.get(...)` evaluates it: None and '' are falsy.
Truthy(v) == v \notin {None, Empty}

\* dict.get(k): None when the key is absent.
Get(d, k) == IF k \in DOMAIN d THEN d[k] ELSE None

\* d[k] = v
SetItem(d, k, v) == [x \in DOMAIN d \cup {k} |-> IF x = k THEN v ELSE d[x]]

\* The identifier the plugin hands out for its n-th persisted entity.
IdOf(n) == "id" \o ToString(n)

\* isinstance(entity, base): Copyright is a member of the Right family.
IsInstance(e, base) ==
    \/ e.cls = base
    \/ base = "Right" /\ e.cls = "Copyright"

\* Model(data, plugin=...): a new entity, not yet persisted.
Entity(cls, data) == [cls |-> cls, data |-> data, persist_id |-> None]

-----------------------------------------------------------------------------
(* The record of one operation: arguments, locals, position, outcome.      *)

NoEntity == 0
NoDict == 0

\* data is the mapping passed (its index), arg its content when passed.
OpRec(kind, data, arg, user, existing, work_data, cls) ==
    [kind |-> kind, pc |-> "start", data |-> data, arg |-> arg, user |-> user,
     existing |-> existing, work_data |-> work_data, cls |-> cls,
     work |-> NoEntity, manifestation |-> NoEntity, copyright |-> NoEntity,
     right |-> NoEntity, error |-> "", returned |-> FALSE, log |-> <<>>,
     doneBefore |-> {p \in DOMAIN ops : ops[p].pc = "done"}]

CallEv(cls, data, user) ==
    [ev |-> "call", cls |-> cls, data |-> data, user |-> user, id |-> None]
OkEv(cls, data, user, id) ==
    [ev |-> "ok", cls |-> cls, data |-> data, user |-> user, id |-> id]
FailEv(cls, data, user) ==
    [ev |-> "fail", cls |-> cls, data |-> data, user |-> user, id |-> None]

Install(o, rec) ==
    IF o \in DOMAIN ops THEN [ops EXCEPT ![o] = rec] ELSE Append(ops, rec)

Idle == \A p \in DOMAIN ops : ops[p].pc = "done"

\* The entities the caller holds a handle to: the ones it constructed itself
\* and the ones returned by operations that completed.
Handles ==
    {1, 2} \cup
    UNION {{ops[p].work, ops[p].manifestation, ops[p].copyright, ops[p].right}
           \ {NoEntity} : p \in {q \in DOMAIN ops : ops[q].returned}}

\* A CoalaIp bound to a plugin that has persisted nothing yet.  The caller
\* holds a Work and a Right it constructed itself and never created.
Init ==
    /\ dicts = <<>>
    /\ heap = <<Entity("Work", [name |-> "Song A"]), Entity("Right", <<>>)>>
    /\ backend = <<>>
    /\ ops = <<>>

-----------------------------------------------------------------------------
(* Entity.create and the plugin behind it.                                 *)

\* entity.create(user): the plugin's identifier becomes the persist_id.
Create(e, id) == [e EXCEPT !.persist_id = id]

\* plugin.save(data, user=...): one more persisted entity.
Save(be, e, user, o) ==
    Append(be, [cls |-> e.cls, data |-> e.data, user |-> user, op |-> o])

\* An exception leaving the operation through a handler that removes what
\* the operation had persisted.
Unwind_Rollback(be, o) == SelectSeq(be, LAMBDA b : b.op # o)

\* An exception leaving the operation: no handler, nothing is undone.
Unwind(be, o) == be

-----------------------------------------------------------------------------
(* register_manifestation                                                  *)

\* The condition of line 125 reading a misspelt key.
NeedsWork_WrongKey(mdata) == ~Truthy(Get(mdata, "manifestationOfwork"))

\* line 125: `if not manifestation_data.get('manifestationOfWork')`
NeedsWork(mdata) == ~Truthy(Get(mdata, "manifestationOfWork"))

\* The default Work data read from a key the Manifestation data lacks.
WorkDataFor_WrongKey(mdata, work_data) ==
    IF work_data = <<>> THEN [name |-> Get(mdata, "title")] ELSE work_data[1]

\* lines 128-129: the data of the automatically created Work.
\* work_data is <<>> for None and <<d>> for a given dict d.
WorkDataFor(mdata, work_data) ==
    IF work_data = <<>> THEN [name |-> Get(mdata, "name")] ELSE work_data[1]

\* The checks without the test of persist_id.
CheckExistingWork_NoPersistCheck(w) ==
    IF ~IsInstance(w, "Work") THEN "TypeError" ELSE ""

\* The checks with persist_id tested before the type.
CheckExistingWork_PersistFirst(w) ==
    IF w.persist_id = None THEN "EntityNotYetPersistedError"
    ELSE IF ~IsInstance(w, "Work") THEN "TypeError"
    ELSE ""

\* lines 132-142: the checks on a given existing_work ("" when it passes).
CheckExistingWork(w) ==
    IF ~IsInstance(w, "Work") THEN "TypeError"
    ELSE IF w.persist_id = None THEN "EntityNotYetPersistedError"
    ELSE ""

\* The assignment of line 144 left out.
LinkManifestation_Forgotten(mdata, w) == mdata

\* The assignment of line 144 taking the Work's name for its identifier.
LinkManifestation_WorkName(mdata, w) ==
    SetItem(mdata, "manifestationOfWork", Get(w.data, "name"))

\* line 144: manifestation_data['manifestationOfWork'] = work.persist_id
LinkManifestation(mdata, w) == SetItem(mdata, "manifestationOfWork", w.persist_id)

\* The Copyright referring to the Manifestation persisted last before this
\* one, as if the identifier were kept in state shared by all operations.
CopyrightData_SharedState(m) ==
    LET ms == {k \in DOMAIN backend : backend[k].cls = "Manifestation"} IN
    [rightsOf |-> IF ms = {} THEN m.persist_id
                  ELSE IdOf(CHOOSE k \in ms : \A j \in ms : j <= k)]

\* The Copyright referring to the Work of the Manifestation.
CopyrightData_OfWork(m) == [rightsOf |-> Get(m.data, "manifestationOfWork")]

\* line 149: copyright_data = {'rightsOf': manifestation.persist_id}
CopyrightData(m) == [rightsOf |-> m.persist_id]

\* raise: the operation ends with the error, nothing else changes.
Raise(o, rec, err, ds) ==
    /\ ops' = Install(o, [rec EXCEPT !.pc = "done", !.error = err])
    /\ dicts' = ds
    /\ UNCHANGED <<heap, backend>>

\* lines 146-147: construct the Manifestation and call its create().
IssueManifestation(o, rec, ds, hp) ==
    LET m == Entity("Manifestation", ds[rec.data]) IN
    /\ dicts' = ds
    /\ heap' = Append(hp, m)
    /\ ops' = Install(o, [rec EXCEPT
                  !.manifestation = Len(hp) + 1,
                  !.pc = "manifestation_call",
                  !.log = Append(@, CallEv("Manifestation", m.data, rec.user))])

\* The given Work created once more before it is used.
UseExistingWork_CreatedAgain(o, rec, ds) ==
    /\ dicts' = ds
    /\ ops' = Install(o, [rec EXCEPT
                  !.work = rec.existing,
                  !.pc = "work_call",
                  !.log = Append(@, CallEv("Work", heap[rec.existing].data, rec.user))])
    /\ UNCHANGED <<heap, backend>>

\* A given work_data taking precedence over the given Work.
UseExistingWork_WorkDataWins(o, rec, ds) ==
    IF rec.work_data # <<>>
    THEN /\ dicts' = ds
         /\ heap' = Append(heap, Entity("Work", rec.work_data[1]))
         /\ ops' = Install(o, [rec EXCEPT
                       !.work = Len(heap) + 1,
                       !.pc = "work_call",
                       !.log = Append(@, CallEv("Work", rec.work_data[1], rec.user))])
         /\ UNCHANGED backend
    ELSE /\ IssueManifestation(o, [rec EXCEPT !.work = rec.existing],
                [ds EXCEPT ![rec.data] = LinkManifestation(@, heap[rec.existing])],
                heap)
         /\ UNCHANGED backend

\* lines 126 and 144-147: the checked existing_work is used as it is.
UseExistingWork(o, rec, ds) ==
    /\ IssueManifestation(o, [rec EXCEPT !.work = rec.existing],
           [ds EXCEPT ![rec.data] = LinkManifestation(@, heap[rec.existing])],
           heap)
    /\ UNCHANGED backend

\* lines 124-147, up to the first call into the plugin.
RegisterManifestation(ds, md, user, existing_work, work_data) ==
    LET o == Len(ops) + 1
        rec == OpRec("register", md, ds[md], user, existing_work, work_data, "")
        mdata == ds[md]
    IN
    /\ Len(ops) < MaxOps
    /\ IF NeedsWork(mdata)
       THEN IF existing_work = NoEntity
            THEN LET w == Entity("Work", WorkDataFor(mdata, work_data)) IN
                 /\ dicts' = ds
                 /\ heap' = Append(heap, w)
                 /\ ops' = Install(o, [rec EXCEPT
                               !.work = Len(heap) + 1,
                               !.pc = "work_call",
                               !.log = Append(@, CallEv("Work", w.data, user))])
                 /\ UNCHANGED backend
            ELSE IF CheckExistingWork(heap[existing_work]) # ""
            THEN Raise(o, rec, CheckExistingWork(heap[existing_work]), ds)
            ELSE UseExistingWork(o, rec, ds)
       ELSE /\ IssueManifestation(o, rec, ds, heap)
            /\ UNCHANGED backend

\* line 131 returned: lines 144-147.
WorkCreated(o) ==
    LET rec == ops[o]
        id == IdOf(Len(backend) + 1)
        w == Create(heap[rec.work], id)
    IN
    /\ rec.pc = "work_call"
    /\ backend' = Save(backend, w, rec.user, o)
    /\ IssueManifestation(o,
           [rec EXCEPT !.log = Append(@, OkEv("Work", w.data, rec.user, id))],
           [dicts EXCEPT ![rec.data] = LinkManifestation(@, w)],
           [heap EXCEPT ![rec.work] = w])

\* line 147 returned: lines 149-151.
ManifestationCreated(o) ==
    LET rec == ops[o]
        id == IdOf(Len(backend) + 1)
        m == Create(heap[rec.manifestation], id)
        c == Entity("Copyright", CopyrightData(m))
    IN
    /\ rec.pc = "manifestation_call"
    /\ backend' = Save(backend, m, rec.user, o)
    /\ heap' = Append([heap EXCEPT ![rec.manifestation] = m], c)
    /\ ops' = [ops EXCEPT ![o] = [rec EXCEPT
                  !.copyright = Len(heap) + 1,
                  !.pc = "copyright_call",
                  !.log = @ \o <<OkEv("Manifestation", m.data, rec.user, id),
                                 CallEv("Copyright", c.data, rec.user)>>]]
    /\ UNCHANGED dicts

\* line 151 returned: line 153, the RegistrationResult.
CopyrightCreated(o) ==
    LET rec == ops[o]
        id == IdOf(Len(backend) + 1)
        c == Create(heap[rec.copyright], id)
    IN
    /\ rec.pc = "copyright_call"
    /\ backend' = Save(backend, c, rec.user, o)
    /\ heap' = [heap EXCEPT ![rec.copyright] = c]
    /\ ops' = [ops EXCEPT ![o] = [rec EXCEPT
                  !.pc = "done",
                  !.returned = TRUE,
                  !.log = Append(@, OkEv("Copyright", c.data, rec.user, id))]]
    /\ UNCHANGED dicts

-----------------------------------------------------------------------------
(* derive_right                                                            *)

\* The condition of line 198 reading a misspelt key.
NeedsSource_WrongKey(rdata) == ~Truthy(Get(rdata, "allowedby"))

\* line 198: `if not right_data.get('allowedBy')`
NeedsSource(rdata) == ~Truthy(Get(rdata, "allowedBy"))

\* The checks without the test for None: isinstance(None, Right) is False.
CheckSourceRight_NoneAsType(sr) ==
    IF sr = NoEntity \/ ~IsInstance(heap[sr], "Right") THEN "TypeError"
    ELSE IF heap[sr].persist_id = None THEN "EntityNotYetPersistedError"
    ELSE ""

\* The checks without the test of persist_id.
CheckSourceRight_NoPersistCheck(sr) ==
    IF sr = NoEntity THEN "ValueError"
    ELSE IF ~IsInstance(heap[sr], "Right") THEN "TypeError"
    ELSE ""

\* The checks without the test of the type.
CheckSourceRight_NoTypeCheck(sr) ==
    IF sr = NoEntity THEN "ValueError"
    ELSE IF heap[sr].persist_id = None THEN "EntityNotYetPersistedError"
    ELSE ""

\* lines 199-211: the checks on source_right ("" when it passes).
\* sr is NoEntity for None, else the index of the given object.
CheckSourceRight(sr) ==
    IF sr = NoEntity THEN "ValueError"
    ELSE IF ~IsInstance(heap[sr], "Right") THEN "TypeError"
    ELSE IF heap[sr].persist_id = None THEN "EntityNotYetPersistedError"
    ELSE ""

\* The assignment of line 213 left out.
LinkRight_Forgotten(rdata, r) == rdata

\* line 213: right_data['allowedBy'] = source_right.persist_id
LinkRight(rdata, r) == SetItem(rdata, "allowedBy", r.persist_id)

\* lines 215-216: construct the Right and call its create().
IssueRight(o, rec, ds) ==
    LET r == Entity(rec.cls, ds[rec.data]) IN
    /\ dicts' = ds
    /\ heap' = Append(heap, r)
    /\ ops' = Install(o, [rec EXCEPT
                  !.right = Len(heap) + 1,
                  !.pc = "right_call",
                  !.log = Append(@, CallEv(r.cls, r.data, rec.user))])
    /\ UNCHANGED backend

\* lines 198-216, up to the call into the plugin.
DeriveRight(ds, rd, current_holder, source_right, right_model_cls) ==
    LET o == Len(ops) + 1
        rec == OpRec("derive", rd, ds[rd], current_holder, source_right, <<>>,
                     right_model_cls)
        rdata == ds[rd]
    IN
    /\ Len(ops) < MaxOps
    /\ IF NeedsSource(rdata)
       THEN IF CheckSourceRight(source_right) # ""
            THEN Raise(o, rec, CheckSourceRight(source_right), ds)
            ELSE IssueRight(o, rec, [ds EXCEPT ![rd] = LinkRight(@, heap[source_right])])
       ELSE IssueRight(o, rec, ds)

\* line 216 returned: line 217.
RightCreated(o) ==
    LET rec == ops[o]
        id == IdOf(Len(backend) + 1)
        r == Create(heap[rec.right], id)
    IN
    /\ rec.pc = "right_call"
    /\ backend' = Save(backend, r, rec.user, o)
    /\ heap' = [heap EXCEPT ![rec.right] = r]
    /\ ops' = [ops EXCEPT ![o] = [rec EXCEPT
                  !.pc = "done",
                  !.returned = TRUE,
                  !.log = Append(@, OkEv(r.cls, r.data, rec.user, id))]]
    /\ UNCHANGED dicts

-----------------------------------------------------------------------------
(* The plugin rejects the pending creation call: EntityCreationError       *)
(* propagates out of the operation (lines 131, 147, 151, 216).             *)

Pending(rec) ==
    CASE rec.pc = "work_call" -> rec.work
      [] rec.pc = "manifestation_call" -> rec.manifestation
      [] rec.pc = "copyright_call" -> rec.copyright
      [] rec.pc = "right_call" -> rec.right
      [] OTHER -> NoEntity

\* A rejected Work creation swallowed: the operation goes on to line 144.
CreateRejected_Swallowed(o) ==
    LET rec == ops[o]
        e == heap[Pending(rec)]
        logged == [rec EXCEPT !.log = Append(@, FailEv(e.cls, e.data, rec.user))]
    IN
    /\ Pending(rec) # NoEntity
    /\ backend' = backend
    /\ IF rec.pc = "work_call"
       THEN IssueManifestation(o, logged,
                [dicts EXCEPT ![rec.data] = LinkManifestation(@, heap[rec.work])],
                heap)
       ELSE /\ ops' = [ops EXCEPT ![o] = [logged EXCEPT
                         !.pc = "done", !.error = "EntityCreationError"]]
            /\ UNCHANGED <<dicts, heap>>

\* A rejected creation call tried once more.
CreateRejected_Retried(o) ==
    LET rec == ops[o]
        e == heap[Pending(rec)]
    IN
    /\ Pending(rec) # NoEntity
    /\ Len(rec.log) < 8
    /\ backend' = backend
    /\ ops' = [ops EXCEPT ![o] = [rec EXCEPT
                  !.log = @ \o <<FailEv(e.cls, e.data, rec.user),
                                 CallEv(e.cls, e.data, rec.user)>>]]
    /\ UNCHANGED <<dicts, heap>>

\* A rejected creation call after which the caller's mapping is put back.
CreateRejected_DataRestored(o) ==
    LET rec == ops[o]
        e == heap[Pending(rec)]
    IN
    /\ Pending(rec) # NoEntity
    /\ backend' = backend
    /\ ops' = [ops EXCEPT ![o] = [rec EXCEPT
                  !.pc = "done",
                  !.error = "EntityCreationError",
                  !.log = Append(@, FailEv(e.cls, e.data, rec.user))]]
    /\ dicts' = [dicts EXCEPT ![rec.data] = rec.arg]
    /\ UNCHANGED heap

CreateRejected(o) ==
    LET rec == ops[o]
        e == heap[Pending(rec)]
    IN
    /\ Pending(rec) # NoEntity
    /\ backend' = Unwind(backend, o)
    /\ ops' = [ops EXCEPT ![o] = [rec EXCEPT
                  !.pc = "done",
                  !.error = "EntityCreationError",
                  !.log = Append(@, FailEv(e.cls, e.data, rec.user))]]
    /\ UNCHANGED <<dicts, heap>>

-----------------------------------------------------------------------------
(* transfer_right: line 240.                                               *)

\* transfer_right as a stub that returns None.
TransferRight_Stub(right, from_user, to_user) ==
    /\ Len(ops) < MaxOps
    /\ ops' = Append(ops, [OpRec("transfer", NoDict, <<>>, from_user, right, <<>>, "")
                  EXCEPT !.pc = "done", !.returned = TRUE])
    /\ UNCHANGED <<dicts, heap, backend>>

TransferRight(right, from_user, to_user) ==
    /\ Len(ops) < MaxOps
    /\ Raise(Len(ops) + 1,
             OpRec("transfer", NoDict, <<>>, from_user, right, <<>>, ""),
             "NotImplementedError", dicts)

-----------------------------------------------------------------------------
(* The caller.  Mappings are either new or ones it passed before.          *)

ManifestationData ==
    {[name |-> "Song A"],
     [name |-> "Song A", manifestationOfWork |-> Empty],
     [name |-> "Song A", manifestationOfWork |-> None],
     [name |-> "Song A", manifestationOfWork |-> ExternalId]}

WorkData == {<<>>, <<[name |-> "Album"]>>}

RightData ==
    {<<>>,
     [allowedBy |-> Empty],
     [allowedBy |-> ExternalId]}

RightModels == {"Right"}

\* A mapping argument: a new dict, or a dict of the right sort passed before.
Mappings(new, old) ==
    {[ds |-> Append(dicts, t), d |-> Len(dicts) + 1] : t \in new}
    \cup {[ds |-> dicts, d |-> i] : i \in old}

\* The mappings passed before as manifestation_data, and as right_data.
ManifestationDicts == {ops[p].data : p \in {q \in DOMAIN ops : ops[q].kind = "register"}}
RightDicts == {ops[p].data : p \in {q \in DOMAIN ops : ops[q].kind = "derive"}}

CallRegister ==
    \E m \in Mappings(ManifestationData, ManifestationDicts), user \in Users,
       existing_work \in Handles \cup {NoEntity}, work_data \in WorkData :
        RegisterManifestation(m.ds, m.d, user, existing_work, work_data)

CallDerive ==
    \E m \in Mappings(RightData, RightDicts), current_holder \in Users,
       source_right \in Handles \cup {NoEntity}, right_model_cls \in RightModels :
        DeriveRight(m.ds, m.d, current_holder, source_right, right_model_cls)

CallTransfer ==
    \E right \in Handles, from_user \in Users, to_user \in Users :
        TransferRight(right, from_user, to_user)

\* One caller, one operation at a time.
Next ==
    \/ Idle /\ CallRegister
    \/ Idle /\ CallDerive
    \/ Idle /\ CallTransfer
    \/ \E o \in DOMAIN ops : WorkCreated(o)
    \/ \E o \in DOMAIN ops : ManifestationCreated(o)
    \/ \E o \in DOMAIN ops : CopyrightCreated(o)
    \/ \E o \in DOMAIN ops : RightCreated(o)
    \/ \E o \in DOMAIN ops : CreateRejected(o)

Spec == Init /\ [][Next]_vars

\* Several callers: an operation may start while another waits for the
\* plugin; the operations interleave at their calls into the plugin.
NextConcurrent ==
    \/ CallRegister
    \/ CallDerive
    \/ CallTransfer
    \/ \E o \in DOMAIN ops : WorkCreated(o)
    \/ \E o \in DOMAIN ops : ManifestationCreated(o)
    \/ \E o \in DOMAIN ops : CopyrightCreated(o)
    \/ \E o \in DOMAIN ops : RightCreated(o)
    \/ \E o \in DOMAIN ops : CreateRejected(o)

SpecConcurrent == Init /\ [][NextConcurrent]_vars

-----------------------------------------------------------------------------
(* Vocabulary of the properties.                                           *)

Registers == {o \in DOMAIN ops : ops[o].kind = "register"}
Derives == {o \in DOMAIN ops : ops[o].kind = "derive"}

\* The creation calls an operation has issued, in order.
Calls(o) == SelectSeq(ops[o].log, LAMBDA e : e.ev = "call")

\* The classes of those calls.
CallClasses(o) == [i \in DOMAIN Calls(o) |-> Calls(o)[i].cls]

IsPrefix(s, t) == Len(s) <= Len(t) /\ \A i \in DOMAIN s : s[i] = t[i]

\* The operation returned its result to the caller.
Returned(o) == ops[o].pc = "done" /\ ops[o].returned

\* The operation ended with the given error.
Failed(o, err) == ops[o].pc = "done" /\ ~ops[o].returned /\ ops[o].error = err

HasKey(d, k) == k \in DOMAIN d

\* register_manifestation(data) with a name only, no existing_work, no work_data.
PlainRegister(o) ==
    /\ o \in Registers
    /\ ~HasKey(ops[o].arg, "manifestationOfWork")
    /\ ops[o].existing = NoEntity
    /\ ops[o].work_data = <<>>

-----------------------------------------------------------------------------
\* C1: a register_manifestation with valid data lacking manifestationOfWork,
\* no existing_work and no work_data never issues anything but Work,
\* Manifestation, Copyright in that order, and when the plugin accepted every
\* call it issued exactly these three: the Work's data is {name: data.name},
\* the Manifestation's manifestationOfWork is the Work's persist_id, the
\* Copyright's rightsOf is the Manifestation's persist_id, and the result's
\* work is the Work created by the first call.
C1_PlainRegisterBuildsGraph ==
    \A o \in DOMAIN ops : PlainRegister(o) =>
        /\ IsPrefix(CallClasses(o), <<"Work", "Manifestation", "Copyright">>)
        /\ Returned(o) =>
            LET r == ops[o]
                w == heap[r.work]
                m == heap[r.manifestation]
                c == heap[r.copyright]
            IN
            /\ CallClasses(o) = <<"Work", "Manifestation", "Copyright">>
            /\ Calls(o)[1].data = [name |-> r.arg.name]
            /\ w.cls = "Work" /\ w.data = Calls(o)[1].data
            /\ w.persist_id = r.log[2].id /\ w.persist_id # None
            /\ r.log[2].ev = "ok" /\ r.log[2].cls = "Work"
            /\ Calls(o)[2].data.manifestationOfWork = w.persist_id
            /\ m.data = Calls(o)[2].data /\ m.persist_id # None
            /\ Calls(o)[3].data = [rightsOf |-> m.persist_id]
            /\ c.data = Calls(o)[3].data

C1_Witness ==
    \E o \in DOMAIN ops : PlainRegister(o) /\ Returned(o)

\* C2: in every execution of register_manifestation, a Manifestation creation
\* call is issued only after every Work creation call of the operation has
\* returned successfully, and a Copyright creation call is issued only after
\* the Manifestation creation call has returned successfully.
C2_DependentAfterPrerequisite ==
    \A o \in Registers :
        LET log == ops[o].log IN
        \A i \in DOMAIN log : log[i].ev = "call" =>
            /\ log[i].cls = "Manifestation" =>
                  \A j \in 1..(i - 1) : (log[j].ev = "call" /\ log[j].cls = "Work") =>
                      /\ j + 1 < i
                      /\ log[j + 1].ev = "ok" /\ log[j + 1].cls = "Work"
            /\ log[i].cls = "Copyright" =>
                  \E j \in 1..(i - 2) :
                      /\ log[j].ev = "call" /\ log[j].cls = "Manifestation"
                      /\ log[j + 1].ev = "ok" /\ log[j + 1].cls = "Manifestation"

C2_Witness ==
    \E o \in Registers :
        /\ CallClasses(o) = <<"Work", "Manifestation", "Copyright">>
        /\ Failed(o, "EntityCreationError")

-----------------------------------------------------------------------------
\* The mapping gives no reference under k: the key is absent, or its value
\* is None or the empty string.
NoReference(d, k) == ~HasKey(d, k) \/ d[k] \in {None, Empty}

\* No Work was created or constructed by the operation, and every
\* Manifestation it sent to the plugin refers to the given value.
NoWorkHandling(o, ref) ==
    /\ \A i \in DOMAIN ops[o].log : ops[o].log[i].cls # "Work"
    /\ ops[o].work = NoEntity
    /\ ops[o].error \in {"", "EntityCreationError"}
    /\ \A i \in DOMAIN Calls(o) : Calls(o)[i].cls = "Manifestation" =>
           Get(Calls(o)[i].data, "manifestationOfWork") = ref
    /\ ops[o].manifestation # NoEntity =>
           Get(heap[ops[o].manifestation].data, "manifestationOfWork") = ref

\* C3 as stated: whenever manifestation_data contains the key
\* manifestationOfWork, whatever its value, no Work is created, the result's
\* work is None and the Manifestation keeps the caller's value.
C3_Original ==
    \A o \in Registers : HasKey(ops[o].arg, "manifestationOfWork") =>
        NoWorkHandling(o, ops[o].arg.manifestationOfWork)

\* C3, amended: whenever manifestation_data contains manifestationOfWork with
\* a value that is neither None nor empty, no Work is created, the result's
\* work is None and the Manifestation keeps the caller's value.
C3_ReferenceGivenSkipsWork ==
    \A o \in Registers : ~NoReference(ops[o].arg, "manifestationOfWork") =>
        NoWorkHandling(o, ops[o].arg.manifestationOfWork)

C3_Witness ==
    \E o \in Registers :
        /\ ~NoReference(ops[o].arg, "manifestationOfWork")
        /\ Returned(o)
        /\ ops[o].existing # NoEntity
        /\ ops[o].work_data # <<>>

\* The operation failed with err before any call into the plugin.
FailedBeforeAnyCall(o, err) == Failed(o, err) /\ ops[o].log = <<>>

\* C4 as stated: with an existing_work whose persist_id is None, for every
\* manifestation_data and work_data, the operation fails with
\* EntityNotYetPersistedError and issues no creation call.
C4_Original ==
    \A o \in Registers :
        (ops[o].existing # NoEntity /\ heap[ops[o].existing].persist_id = None) =>
            FailedBeforeAnyCall(o, "EntityNotYetPersistedError")

\* C4, amended: with an existing_work that is a Work whose persist_id is
\* None and a manifestation_data that gives no manifestationOfWork (absent,
\* None or empty), for every work_data, the operation fails with
\* EntityNotYetPersistedError and issues no creation call.
C4_UnpersistedWorkRejected ==
    \A o \in Registers :
        (/\ ops[o].existing # NoEntity
         /\ heap[ops[o].existing].cls = "Work"
         /\ heap[ops[o].existing].persist_id = None
         /\ NoReference(ops[o].arg, "manifestationOfWork")) =>
            FailedBeforeAnyCall(o, "EntityNotYetPersistedError")

C4_Witness ==
    \E o \in Registers :
        /\ ops[o].existing # NoEntity
        /\ heap[ops[o].existing].cls = "Work"
        /\ heap[ops[o].existing].persist_id = None
        /\ NoReference(ops[o].arg, "manifestationOfWork")
        /\ ops[o].work_data # <<>>
        /\ ops[o].pc = "done"

\* C5 as stated: with an existing_work that is not a Work, for every
\* manifestation_data and work_data, the operation fails with TypeError and
\* issues no creation call.
C5_Original ==
    \A o \in Registers :
        (ops[o].existing # NoEntity /\ heap[ops[o].existing].cls # "Work") =>
            FailedBeforeAnyCall(o, "TypeError")

\* C5, amended: with an existing_work that is not a Work and a
\* manifestation_data that gives no manifestationOfWork (absent, None or
\* empty), for every work_data, the operation fails with TypeError and issues
\* no creation call.
C5_NonWorkRejected ==
    \A o \in Registers :
        (/\ ops[o].existing # NoEntity
         /\ heap[ops[o].existing].cls # "Work"
         /\ NoReference(ops[o].arg, "manifestationOfWork")) =>
            FailedBeforeAnyCall(o, "TypeError")

C5_Witness ==
    \E o \in Registers :
        /\ ops[o].existing # NoEntity
        /\ heap[ops[o].existing].cls # "Work"
        /\ heap[ops[o].existing].persist_id # None
        /\ NoReference(ops[o].arg, "manifestationOfWork")
        /\ ops[o].pc = "done"

-----------------------------------------------------------------------------
\* The operation is the last one started: nothing ran after it.
Latest(o) == o = Len(ops)

\* C6: derive_right with right_data lacking allowedBy and without
\* source_right fails with ValueError, issues no creation call and leaves
\* right_data as it was passed.
C6_NoSourceNoAllowedBy ==
    \A o \in Derives :
        (~HasKey(ops[o].arg, "allowedBy") /\ ops[o].existing = NoEntity) =>
            /\ FailedBeforeAnyCall(o, "ValueError")
            /\ ops[o].right = NoEntity
            /\ Latest(o) => dicts[ops[o].data] = ops[o].arg

C6_Witness ==
    \E o \in Derives :
        /\ ~HasKey(ops[o].arg, "allowedBy") /\ ops[o].existing = NoEntity
        /\ ops[o].pc = "done"
        /\ \E p \in Registers : Returned(p)

\* The Right that derive_right created and returned is allowed by ref: in
\* the data sent to the plugin, in what the plugin persisted, in the entity.
CreatedRightAllowedBy(o, ref) ==
    /\ Len(Calls(o)) = 1
    /\ Get(Calls(o)[1].data, "allowedBy") = ref
    /\ Get(heap[ops[o].right].data, "allowedBy") = ref
    /\ \E i \in DOMAIN backend :
           /\ IdOf(i) = heap[ops[o].right].persist_id
           /\ backend[i].op = o
           /\ Get(backend[i].data, "allowedBy") = ref

\* source_right was given and is persisted.
PersistedSource(o) ==
    /\ ops[o].existing # NoEntity
    /\ heap[ops[o].existing].persist_id # None

\* C7 as stated: with a persisted source_right and an accepting plugin, for
\* every right_data, the created Right's allowedBy is source_right.persist_id.
C7_Original ==
    \A o \in Derives : (PersistedSource(o) /\ Returned(o)) =>
        CreatedRightAllowedBy(o, heap[ops[o].existing].persist_id)

\* C7, amended: with a persisted source_right and an accepting plugin, for
\* every right_data that gives no allowedBy (absent, None or empty), the
\* created Right's allowedBy is source_right.persist_id.
C7_AllowedByIsSource ==
    \A o \in Derives :
        (PersistedSource(o) /\ NoReference(ops[o].arg, "allowedBy") /\ Returned(o)) =>
            CreatedRightAllowedBy(o, heap[ops[o].existing].persist_id)

C7_Witness ==
    \E o \in Derives :
        /\ PersistedSource(o) /\ NoReference(ops[o].arg, "allowedBy") /\ Returned(o)
        /\ HasKey(ops[o].arg, "allowedBy")

\* C8: when right_data has no allowedBy, a source_right that is not of the
\* Right family makes derive_right fail with TypeError and a Right-family
\* source_right without persist_id makes it fail with
\* EntityNotYetPersistedError; either way no creation call is issued and no
\* Right is constructed or returned.
C8_BadSourceRejected ==
    \A o \in Derives :
        (~HasKey(ops[o].arg, "allowedBy") /\ ops[o].existing # NoEntity) =>
            LET sr == heap[ops[o].existing] IN
            /\ sr.cls \notin {"Right", "Copyright"} =>
                   FailedBeforeAnyCall(o, "TypeError") /\ ops[o].right = NoEntity
            /\ (sr.cls \in {"Right", "Copyright"} /\ sr.persist_id = None) =>
                   /\ FailedBeforeAnyCall(o, "EntityNotYetPersistedError")
                   /\ ops[o].right = NoEntity

C8_Witness ==
    \E o, p \in Derives :
        /\ ~HasKey(ops[o].arg, "allowedBy") /\ ~HasKey(ops[p].arg, "allowedBy")
        /\ ops[o].existing # NoEntity /\ ops[p].existing # NoEntity
        /\ heap[ops[o].existing].cls = "Work"
        /\ heap[ops[p].existing].cls = "Right"
        /\ heap[ops[p].existing].persist_id = None
        /\ ops[o].pc = "done" /\ ops[p].pc = "done"

-----------------------------------------------------------------------------
\* The identifiers the plugin returned to the operation for the class.
CreatedIds(o, cls) ==
    {ops[o].log[i].id : i \in {j \in DOMAIN ops[o].log :
        ops[o].log[j].ev = "ok" /\ ops[o].log[j].cls = cls}}

\* The operation created a graph of its own: one Work, one Manifestation
\* referring to it, one Copyright referring to that Manifestation.
OwnGraph(o) ==
    /\ CallClasses(o) = <<"Work", "Manifestation", "Copyright">>
    /\ CreatedIds(o, "Work") = {heap[ops[o].work].persist_id}
    /\ CreatedIds(o, "Manifestation") = {heap[ops[o].manifestation].persist_id}
    /\ CreatedIds(o, "Copyright") = {heap[ops[o].copyright].persist_id}
    /\ Get(heap[ops[o].manifestation].data, "manifestationOfWork")
           = heap[ops[o].work].persist_id
    /\ Get(heap[ops[o].copyright].data, "rightsOf")
           = heap[ops[o].manifestation].persist_id

AllIds(o) ==
    CreatedIds(o, "Work") \cup CreatedIds(o, "Manifestation")
        \cup CreatedIds(o, "Copyright")

\* Two graphs, six calls, nothing shared.
TwoIndependentGraphs(a, b) ==
    /\ OwnGraph(a) /\ OwnGraph(b)
    /\ Len(Calls(a)) + Len(Calls(b)) = 6
    /\ ops[a].work # ops[b].work
    /\ AllIds(a) \cap AllIds(b) = {}
    /\ Cardinality(AllIds(a) \cup AllIds(b)) = 6
    /\ None \notin (AllIds(a) \cup AllIds(b))

\* b is a second register_manifestation after a, both without existing_work
\* and with the same work_data and user, both returned, a's data without
\* manifestationOfWork.
Repeated(a, b) ==
    /\ a \in Registers /\ b \in Registers
    /\ a \in ops[b].doneBefore
    /\ ~HasKey(ops[a].arg, "manifestationOfWork")
    /\ ops[a].existing = NoEntity /\ ops[b].existing = NoEntity
    /\ ops[a].work_data = ops[b].work_data /\ ops[a].user = ops[b].user
    /\ Returned(a) /\ Returned(b)

\* C9 as stated: the second call creates a second, independent graph whether
\* it is given an equal copy of the first call's data or the very same mapping.
C9_Original ==
    \A a, b \in DOMAIN ops :
        (Repeated(a, b) /\ (ops[b].arg = ops[a].arg \/ ops[b].data = ops[a].data)) =>
            TwoIndependentGraphs(a, b)

\* C9, amended: calling register_manifestation twice in sequence with
\* identical data (no manifestationOfWork, no existing_work, accepting
\* plugin), each call receiving its own mapping, creates two independent
\* graphs: six creation calls in total, two distinct Works, two
\* Manifestations each referring to its own call's Work, two Copyrights each
\* referring to its own call's Manifestation.
C9_NoDeduplication ==
    \A a, b \in DOMAIN ops :
        (Repeated(a, b) /\ ops[b].arg = ops[a].arg /\ ops[b].data # ops[a].data) =>
            TwoIndependentGraphs(a, b)

C9_Witness ==
    \E a, b \in DOMAIN ops :
        Repeated(a, b) /\ ops[b].arg = ops[a].arg /\ ops[b].data # ops[a].data

\* C10: whatever the plugin accepted stays persisted, also when a later
\* creation call of the same operation is rejected: every identifier the
\* plugin returned to an operation is still on the backend with the data it
\* was created with and is still the entity's persist_id, and the backend
\* only ever grows.
Persisted(o, e) ==
    \E k \in DOMAIN backend :
        /\ IdOf(k) = e.id
        /\ backend[k].cls = e.cls /\ backend[k].data = e.data
        /\ backend[k].op = o /\ backend[k].user = e.user

StaysPersisted ==
    \A o \in DOMAIN ops : \A i \in DOMAIN ops[o].log :
        ops[o].log[i].ev = "ok" =>
            /\ Persisted(o, ops[o].log[i])
            /\ \E h \in DOMAIN heap :
                   /\ heap[h].persist_id = ops[o].log[i].id
                   /\ heap[h].cls = ops[o].log[i].cls

C10_NoCompensation ==
    /\ []StaysPersisted
    /\ [][IsPrefix(backend, backend')]_vars

C10_Witness ==
    \E o \in Registers :
        /\ Failed(o, "EntityCreationError")
        /\ CallClasses(o) = <<"Work", "Manifestation">>
        /\ CreatedIds(o, "Work") # {}
        /\ \E k \in DOMAIN backend : backend[k].op = o /\ backend[k].cls = "Work"

-----------------------------------------------------------------------------
\* C11: when the plugin rejects a creation call of register_manifestation or
\* derive_right, the operation ends with EntityCreationError: the rejected
\* call is the last thing the operation did (no retry, no creation of the
\* dependent entities) and no result is returned.
C11_RejectionEndsOperation ==
    \A o \in Registers \cup Derives :
        LET log == ops[o].log IN
        /\ \A i \in DOMAIN log : log[i].ev = "fail" =>
               /\ i = Len(log) /\ i > 1
               /\ log[i - 1].ev = "call"
               /\ log[i - 1].cls = log[i].cls /\ log[i - 1].data = log[i].data
               /\ Failed(o, "EntityCreationError")
        /\ Failed(o, "EntityCreationError") =>
               /\ log # <<>> /\ log[Len(log)].ev = "fail"
               /\ ~ops[o].returned

C11_Witness ==
    \E o \in Registers, p \in Derives :
        /\ Failed(o, "EntityCreationError") /\ CallClasses(o) = <<"Work">>
        /\ Failed(p, "EntityCreationError") /\ CallClasses(p) = <<"Right">>

\* C12: transfer_right fails with NotImplementedError for every input, calls
\* the plugin for nothing and changes no mapping, entity or backend state.
Transfers == {o \in DOMAIN ops : ops[o].kind = "transfer"}

TransferStarts == Len(ops') = Len(ops) + 1 /\ ops'[Len(ops')].kind = "transfer"

C12_TransferNotImplemented ==
    /\ [](\A o \in Transfers :
            /\ Failed(o, "NotImplementedError")
            /\ ops[o].log = <<>>
            /\ {ops[o].work, ops[o].manifestation, ops[o].copyright, ops[o].right}
                   = {NoEntity})
    /\ [][TransferStarts => (dicts' = dicts /\ heap' = heap /\ backend' = backend)]_vars

C12_Witness ==
    \E o \in Transfers :
        /\ ops[o].pc = "done"
        /\ backend # <<>>
        /\ heap[ops[o].existing].persist_id # None

-----------------------------------------------------------------------------
\* The errors register_manifestation can end with.
RegisterErrors == {"TypeError", "EntityNotYetPersistedError", "EntityCreationError"}

\* A finished register_manifestation either failed with one error and no
\* result, or returned a result whose copyright and manifestation are
\* persisted and linked, and whose work is None exactly when skipped holds;
\* a work that is not None is a persisted Work, the given existing_work or
\* the Work the operation created.
ErrorOrFullResult(o, skipped) ==
    LET r == ops[o] IN
    r.pc = "done" =>
        \/ ~r.returned /\ r.error \in RegisterErrors
        \/ /\ r.returned /\ r.error = ""
           /\ r.manifestation # NoEntity /\ r.copyright # NoEntity
           /\ heap[r.manifestation].cls = "Manifestation"
           /\ heap[r.copyright].cls = "Copyright"
           /\ heap[r.manifestation].persist_id # None
           /\ heap[r.copyright].persist_id # None
           /\ Get(heap[r.copyright].data, "rightsOf") = heap[r.manifestation].persist_id
           /\ (r.work = NoEntity) <=> skipped
           /\ r.work # NoEntity =>
                  /\ heap[r.work].cls = "Work"
                  /\ heap[r.work].persist_id # None
                  /\ \/ r.work = r.existing
                     \/ r.existing = NoEntity
                        /\ CreatedIds(o, "Work") = {heap[r.work].persist_id}

\* C13 as stated: the result's work is None if and only if
\* manifestationOfWork was present in manifestation_data.
C13_Original ==
    \A o \in Registers :
        ErrorOrFullResult(o, HasKey(ops[o].arg, "manifestationOfWork"))

\* C13, amended: every register_manifestation call either fails with exactly
\* one error kind or returns a fully populated result: copyright and
\* manifestation are persisted, copyright.rightsOf is the manifestation's
\* persist_id, and work is None if and only if manifestation_data had a
\* manifestationOfWork that is neither None nor empty; a work that is not
\* None is persisted and is the given existing_work or the new Work.
C13_ErrorOrFullResult ==
    \A o \in Registers :
        ErrorOrFullResult(o, ~NoReference(ops[o].arg, "manifestationOfWork"))

C13_Witness ==
    \E o, p \in Registers :
        /\ Returned(o) /\ ops[o].work = NoEntity
        /\ Returned(p) /\ ops[p].work # NoEntity
        /\ HasKey(ops[p].arg, "manifestationOfWork")

-----------------------------------------------------------------------------
\* The persisted entity k refers, under key, to a Work persisted before it.
RefersToPersistedWork(k) ==
    \E j \in 1..(k - 1) :
        /\ backend[j].cls = "Work"
        /\ IdOf(j) = Get(backend[k].data, "manifestationOfWork")

\* The Manifestations persisted by register_manifestation calls that returned.
RegisteredManifestations ==
    {k \in DOMAIN backend :
        /\ backend[k].cls = "Manifestation"
        /\ Returned(backend[k].op)}

\* C14 as stated: after successful register_manifestation operations every
\* persisted Manifestation's manifestationOfWork is the persist_id of some
\* persisted Work.
C14_Original ==
    \A k \in RegisteredManifestations : RefersToPersistedWork(k)

\* C14, amended: after any sequence of successful register_manifestation
\* operations, every persisted Manifestation whose manifestationOfWork the
\* operation set itself (manifestation_data gave none: absent, None or
\* empty) has the persist_id of some persisted Work there; a
\* manifestationOfWork supplied by the caller is persisted as given,
\* unchecked.
C14_ManifestationOfPersistedWork ==
    \A k \in RegisteredManifestations :
        IF NoReference(ops[backend[k].op].arg, "manifestationOfWork")
        THEN RefersToPersistedWork(k)
        ELSE Get(backend[k].data, "manifestationOfWork")
                 = ops[backend[k].op].arg.manifestationOfWork

C14_Witness ==
    \E k, l \in RegisteredManifestations :
        /\ ops[backend[k].op].existing = NoEntity
        /\ NoReference(ops[backend[k].op].arg, "manifestationOfWork")
        /\ ops[backend[l].op].existing # NoEntity
        /\ NoReference(ops[backend[l].op].arg, "manifestationOfWork")

-----------------------------------------------------------------------------
\* The entities an operation constructed itself.
ConstructedBy(o) ==
    ({ops[o].work, ops[o].manifestation, ops[o].copyright, ops[o].right}
        \ {NoEntity})
    \ (IF ops[o].kind = "transfer" THEN {} ELSE {ops[o].existing})

\* A creation call for the entity returned from the plugin with its id.
CreatedThroughPlugin(h) ==
    \E o \in DOMAIN ops :
        /\ h \in ConstructedBy(o)
        /\ \E i \in DOMAIN ops[o].log :
               /\ ops[o].log[i].ev = "ok"
               /\ ops[o].log[i].cls = heap[h].cls
               /\ ops[o].log[i].id = heap[h].persist_id

PersistedEntities == {h \in DOMAIN heap : heap[h].persist_id # None}

\* C15: an entity's persist_id is set if and only if a creation call for it
\* returned from the plugin; every entity is created at most once, under an
\* identifier of its own; and a persist_id that is set never changes, so an
\* existing_work or source_right given to an operation keeps its own.
PersistIdIffCreated ==
    /\ \A h \in DOMAIN heap : (heap[h].persist_id # None) <=> CreatedThroughPlugin(h)
    /\ \A g, h \in PersistedEntities : heap[g].persist_id = heap[h].persist_id => g = h
    /\ Cardinality(PersistedEntities) = Len(backend)

PersistIdKept ==
    \A h \in DOMAIN heap :
        heap[h].persist_id # None =>
            h \in DOMAIN heap' /\ heap'[h].persist_id = heap[h].persist_id

C15_PersistIdSetOnceByCreation ==
    /\ []PersistIdIffCreated
    /\ [][PersistIdKept]_vars

C15_Witness ==
    \E o \in Registers :
        /\ Returned(o) /\ ops[o].existing # NoEntity /\ ops[o].work = ops[o].existing
        /\ heap[1].persist_id = None

-----------------------------------------------------------------------------
\* register_manifestation was given a persisted Work as existing_work and a
\* manifestation_data without manifestationOfWork.
GivenPersistedWork(o) ==
    /\ o \in Registers
    /\ ops[o].existing # NoEntity
    /\ heap[ops[o].existing].cls = "Work"
    /\ heap[ops[o].existing].persist_id # None
    /\ ~HasKey(ops[o].arg, "manifestationOfWork")

\* C16: given a persisted existing_work and no manifestationOfWork, the
\* operation issues no Work creation call and constructs no Work, whatever
\* work_data is; its calls are Manifestation, then Copyright, exactly these
\* two when the plugin accepts them; the Manifestation's manifestationOfWork
\* is existing_work.persist_id; and the result's work is existing_work.
C16_ExistingWorkUsedAsIs ==
    \A o \in DOMAIN ops : GivenPersistedWork(o) =>
        LET ref == heap[ops[o].existing].persist_id IN
        /\ IsPrefix(CallClasses(o), <<"Manifestation", "Copyright">>)
        /\ Len(Calls(o)) >= 1
        /\ Calls(o)[1].data = SetItem(ops[o].arg, "manifestationOfWork", ref)
        /\ \A h \in ConstructedBy(o) : heap[h].cls # "Work"
        /\ ops[o].work = ops[o].existing
        /\ ops[o].error \in {"", "EntityCreationError"}
        /\ Returned(o) =>
               /\ CallClasses(o) = <<"Manifestation", "Copyright">>
               /\ Get(heap[ops[o].manifestation].data, "manifestationOfWork") = ref

C16_Witness ==
    \E o \in DOMAIN ops :
        GivenPersistedWork(o) /\ Returned(o) /\ ops[o].work_data # <<>>

-----------------------------------------------------------------------------
\* The Rights persisted by derive_right whose allowedBy came from
\* source_right (right_data gave none).
DerivedFromSource ==
    {k \in DOMAIN backend :
        /\ backend[k].op \in Derives
        /\ NoReference(ops[backend[k].op].arg, "allowedBy")}

\* The persisted entities that k's allowedBy names.
AllowedBy(k) == {j \in DOMAIN backend : IdOf(j) = Get(backend[k].data, "allowedBy")}

\* C17: every persisted Right whose allowedBy was set from a source_right
\* names exactly one persisted entity, a Right (or Copyright) persisted
\* strictly before it, the source_right of its operation; so these links
\* never form a cycle and no Right is allowed by itself.
C17_LineageToEarlierRight ==
    \A k \in DerivedFromSource :
        /\ Cardinality(AllowedBy(k)) = 1
        /\ \A j \in AllowedBy(k) :
               /\ j < k
               /\ backend[j].cls \in {"Right", "Copyright"}
               /\ IdOf(j) = heap[ops[backend[k].op].existing].persist_id

C17_Witness ==
    \E k \in DerivedFromSource : \E j \in AllowedBy(k) :
        backend[j].cls = "Right" /\ backend[j].op \in Derives

-----------------------------------------------------------------------------
\* derive_right did not look at source_right: no error but a rejected
\* creation, one creation call, issued under current_holder with right_data
\* as the caller passed it, and right_data itself untouched.
SkipsLineage(o) ==
    /\ ops[o].error \in {"", "EntityCreationError"}
    /\ Len(Calls(o)) = 1
    /\ Calls(o)[1].cls = ops[o].cls
    /\ Calls(o)[1].user = ops[o].user
    /\ Calls(o)[1].data = ops[o].arg
    /\ heap[ops[o].right].data = ops[o].arg
    /\ Latest(o) => dicts[ops[o].data] = ops[o].arg
    /\ Returned(o) =>
           \E k \in DOMAIN backend :
               /\ IdOf(k) = heap[ops[o].right].persist_id
               /\ backend[k].data = ops[o].arg /\ backend[k].user = ops[o].user

\* C18 as stated: whenever right_data has allowedBy present, lineage
\* resolution is skipped.
C18_Original ==
    \A o \in Derives : HasKey(ops[o].arg, "allowedBy") => SkipsLineage(o)

\* C18, amended: when right_data already has an allowedBy that is neither
\* None nor empty, derive_right skips lineage resolution: source_right is
\* neither validated nor used (a missing, wrongly typed or unpersisted one
\* raises no error), the created Right's allowedBy is the caller's value,
\* and exactly one creation call is issued, under current_holder.
C18_AllowedByGivenSkipsLineage ==
    \A o \in Derives : ~NoReference(ops[o].arg, "allowedBy") => SkipsLineage(o)

\* One call without source_right, one with a source_right that is no Right
\* and was never persisted.
C18_Witness ==
    \E o, p \in Derives :
        /\ ~NoReference(ops[o].arg, "allowedBy") /\ Returned(o)
        /\ ~NoReference(ops[p].arg, "allowedBy") /\ Returned(p)
        /\ ops[o].existing = NoEntity
        /\ ops[p].existing # NoEntity
        /\ heap[ops[p].existing].cls = "Work"
        /\ heap[ops[p].existing].persist_id = None

-----------------------------------------------------------------------------
\* The key an operation resolves, and the entity whose persist_id it writes.
RefKey(o) == IF ops[o].kind = "register" THEN "manifestationOfWork" ELSE "allowedBy"
RefEntity(o) == IF ops[o].kind = "register" THEN ops[o].work ELSE ops[o].existing

\* The class of the creation call that was rejected.
RejectedClass(o) == ops[o].log[Len(ops[o].log)].cls

\* C19: the caller's mapping is written only after the checks and the Work
\* creation succeeded.  While the Work creation is pending, and after a
\* failure with TypeError, ValueError, EntityNotYetPersistedError or a
\* rejected Work creation, the mapping is as it was passed; after a later
\* creation call was rejected, the mapping is as it was passed but for the
\* reference written under manifestationOfWork or allowedBy.
C19_MappingWrittenAfterChecks ==
    \A o \in Registers \cup Derives : Latest(o) =>
        LET d == dicts[ops[o].data]
            arg == ops[o].arg
        IN
        /\ ops[o].pc = "work_call" => d = arg
        /\ (\E err \in {"TypeError", "ValueError", "EntityNotYetPersistedError"} :
                Failed(o, err)) => d = arg
        /\ Failed(o, "EntityCreationError") =>
               IF RejectedClass(o) = "Work" \/ ~NoReference(arg, RefKey(o))
               THEN d = arg
               ELSE /\ heap[RefEntity(o)].persist_id # None
                    /\ d = SetItem(arg, RefKey(o), heap[RefEntity(o)].persist_id)

C19_Witness ==
    \E o \in Registers :
        /\ Latest(o) /\ Failed(o, "EntityCreationError")
        /\ CallClasses(o) = <<"Work", "Manifestation">>
        /\ dicts[ops[o].data] # ops[o].arg
        /\ \E p \in Derives : Failed(p, "EntityNotYetPersistedError")

-----------------------------------------------------------------------------
\* b started while a was waiting for the plugin.
Overlap(a, b) == a < b /\ a \notin ops[b].doneBefore

\* What the entities persisted by an operation refer to.
References(o) ==
    {Get(backend[k].data, "manifestationOfWork") :
        k \in {j \in DOMAIN backend : backend[j].op = o /\ backend[j].cls = "Manifestation"}}
    \cup {Get(backend[k].data, "rightsOf") :
        k \in {j \in DOMAIN backend : backend[j].op = o /\ backend[j].cls = "Copyright"}}

\* The identifiers of the entities persisted by an operation.
PersistedIds(o) == {IdOf(k) : k \in {j \in DOMAIN backend : backend[j].op = o}}

\* The operation's result is what it is when the operation runs alone: the
\* Manifestation refers to the Work the operation created, if it created
\* one, and the Copyright to the operation's Manifestation.
AsIfAlone(o) ==
    Returned(o) =>
        /\ CreatedIds(o, "Work") # {} =>
               CreatedIds(o, "Work") =
                   {Get(heap[ops[o].manifestation].data, "manifestationOfWork")}
        /\ CreatedIds(o, "Manifestation") = {heap[ops[o].manifestation].persist_id}
        /\ Get(heap[ops[o].copyright].data, "rightsOf")
               = heap[ops[o].manifestation].persist_id
        /\ References(o) \subseteq
               PersistedIds(o) \cup {Get(ops[o].arg, "manifestationOfWork")}
                   \cup (IF ops[o].existing = NoEntity THEN {}
                         ELSE {heap[ops[o].existing].persist_id})

Isolated(a, b) ==
    /\ AsIfAlone(a) /\ AsIfAlone(b)
    /\ References(a) \cap PersistedIds(b) = {}
    /\ References(b) \cap PersistedIds(a) = {}

\* C20 as stated: any two register_manifestation operations that overlap
\* keep their graphs apart.
C20_Original ==
    \A a, b \in Registers : Overlap(a, b) => Isolated(a, b)

\* C20, amended: when two register_manifestation operations, each given a
\* manifestation_data mapping of its own, run concurrently, interleaved in
\* any order at their plugin creation calls, against a plugin that returns a
\* fresh identifier per call, each operation's result is the same as if it
\* ran alone: its Manifestation refers to the Work of its own operation, its
\* Copyright to its own Manifestation, and no entity of one operation refers
\* to an entity created by the other.
C20_ConcurrentRegistersIsolated ==
    \A a, b \in Registers :
        (Overlap(a, b) /\ ops[a].data # ops[b].data) => Isolated(a, b)

C20_Witness ==
    \E a, b \in Registers :
        /\ Overlap(a, b) /\ ops[a].data # ops[b].data
        /\ Returned(a) /\ Returned(b)
        /\ CallClasses(a) = <<"Work", "Manifestation", "Copyright">>
        /\ CallClasses(b) = <<"Work", "Manifestation", "Copyright">>
        /\ \E i, j, k \in DOMAIN backend :
               /\ i < j /\ j < k
               /\ backend[i].op = a /\ backend[j].op = b /\ backend[k].op = a

====
